---- MODULE Spec2Model ----
(***************************************************************************)
(* seqan3::detail::view_translate_join                                     *)
(* (include/seqan3/range/view/translate_join.hpp): a flat, random-access,  *)
(* sized view over the (sequence, reading frame) pairs of a range of       *)
(* nucleotide sequences.                                                   *)
(*                                                                         *)
(* The model holds one outer collection (urange, wrapped by reference),    *)
(* one joined view over it (tf, selected_frames), the value returned by    *)
(* the latest operation (ret) and the iterator pair of a traversal         *)
(* (it, last).                                                             *)
(***************************************************************************)
EXTENDS Integers, Sequences, FiniteSets, TLC

\* ------------------------------------------------------------------ bounds

\* Largest length of the outer collection.
MaxOuter == 2

\* Width in bits of size_type (size_type_t of the inner range, line 62),
\* scaled down so that outer_length * frame_count can exceed it.
SizeTypeBits == 3

RECURSIVE Pow2(_)
Pow2(k) == IF k = 0 THEN 1 ELSE 2 * Pow2(k - 1)

\* Number of values of size_type.
Modulus == Pow2(SizeTypeBits)

\* The values of size_type.
size_type == 0 .. (Modulus - 1)

\* ------------------------------------------------- translation_frames enum

FWD_FRAME_0 == 1
FWD_FRAME_1 == 2
FWD_FRAME_2 == 4
REV_FRAME_0 == 8
REV_FRAME_1 == 16
REV_FRAME_2 == 32
SIX_FRAME == 63

FWD_REV_0 == 9

\* Every combination of the six frame bits.
translation_frames == 0 .. SIX_FRAME

\* The frames of the views that are assigned to the view.
AssignedFrames == { 0, FWD_REV_0, SIX_FRAME }

\* operator& of translation_frames: bitwise and of the underlying integers.
RECURSIVE BitAnd(_, _)
BitAnd(a, b) ==
    IF a = 0 \/ b = 0
    THEN 0
    ELSE (a % 2) * (b % 2) + 2 * BitAnd(a \div 2, b \div 2)

\* ---------------------------------------------------------- the input data

\* Inner nucleotide sequences the outer collection may hold.
InnerSeqs == { <<"A", "C", "G", "T", "A", "C">>, <<"T", "T", "G", "A", "C", "A">> }

RECURSIVE SeqsUpTo(_)
SeqsUpTo(k) ==
    IF k = 0
    THEN { <<>> }
    ELSE LET shorter == SeqsUpTo(k - 1)
         IN  shorter \cup { Append(s, x) : s \in { t \in shorter : Len(t) = k - 1 }, x \in InnerSeqs }

\* Every outer collection within the bound.
Outers == SeqsUpTo(MaxOuter)

\* view::translate_single(frame) applied to one inner sequence: the lazy
\* single-frame view, described by what it is bound to.
translate_single(inner, frame) == [seq |-> inner, frame |-> frame]

\* ------------------------------------------------------------------- state

VARIABLES
    urange,           \* the wrapped outer collection (seen through the stored view of it)
    tf,               \* the frames requested
    selected_frames,  \* the frames selected, in the order they were pushed
    ret,              \* what the latest operation returned
    it,               \* position of the traversal's iterator, NoIter when there is none
    last,             \* position of the traversal's end iterator, NoIter when there is none
    const_iterable,   \* whether urng_t models ConstIterableRange
    reader,           \* a second thread that reads the view, statement by statement
    stream            \* a range that is printed to the debug stream, and the output

vars == <<urange, tf, selected_frames, ret, it, last, const_iterable, reader, stream>>

\* What the operations of the view and of the owner of the outer collection
\* leave alone.
aux == <<const_iterable, reader, stream>>

NoIter == 0 - 1

NoElem == [seq |-> <<>>, frame |-> 0]

\* The outcome of a comparison of two iterators; NoCmp where none was made.
Compared(lhs, rhs, eq, ne, lt, gt) ==
    [lhs |-> lhs, rhs |-> rhs, eq |-> eq, ne |-> ne, lt |-> lt, gt |-> gt]

NoCmp == Compared("", "", FALSE, FALSE, FALSE, FALSE)

Returned(op, n, sz, elem) == [op |-> op, n |-> n, size |-> sz, elem |-> elem, cmp |-> NoCmp]

\* What an operation returns that returns nothing, or an iterator.
Void == Returned("void", 0, 0, NoElem)

\* The second thread between two calls, with what its latest call returned.
Idle(result) == [pc |-> "idle", n |-> 0, outer_size |-> 0, index_frame |-> 0,
                 index_urange |-> 0, result |-> result]

\* Nothing is printed.
NoStream == [pc |-> "none", is_view |-> FALSE, elems |-> <<>>, is_alphabet |-> FALSE,
             is_uint_adaptation |-> FALSE, b |-> 0, e |-> 0, out |-> <<>>]

\* The program has neither been aborted by a failed assertion nor run into
\* undefined behaviour.
Running == ret.op \notin { "assert_fail", "undefined" }

\* ------------------------------------------------------------ construction

\* One `if ((_tf & F) == F) selected_frames.push_back(F);` of the constructor.
push_if_set(frames, _tf, F) ==
    IF BitAnd(_tf, F) = F THEN Append(frames, F) ELSE frames

\* The mutated constructor tests REV_FRAME_0 before FWD_FRAME_2.
view_translate_join_swapped(_tf) ==
    push_if_set(
     push_if_set(
      push_if_set(
       push_if_set(
        push_if_set(
         push_if_set(<<>>, _tf, FWD_FRAME_0),
         _tf, FWD_FRAME_1),
        _tf, REV_FRAME_0),
       _tf, FWD_FRAME_2),
      _tf, REV_FRAME_1),
     _tf, REV_FRAME_2)

\* view_translate_join(urng_t _urange, translation_frames _tf): the frame list
\* the constructor leaves in selected_frames.
view_translate_join(_tf) ==
    push_if_set(
     push_if_set(
      push_if_set(
       push_if_set(
        push_if_set(
         push_if_set(<<>>, _tf, FWD_FRAME_0),
         _tf, FWD_FRAME_1),
        _tf, FWD_FRAME_2),
       _tf, REV_FRAME_0),
      _tf, REV_FRAME_1),
     _tf, REV_FRAME_2)

\* The bitmasks the views of the main specification are constructed with: no
\* frame, one frame, two, three that are not adjacent, four, and all six.
ConstructedFrames ==
    { 0, FWD_FRAME_0, FWD_REV_0, FWD_FRAME_1 + REV_FRAME_0 + REV_FRAME_2,
      FWD_FRAME_0 + FWD_FRAME_1 + FWD_FRAME_2 + REV_FRAME_0, SIX_FRAME }

\* The state after the construction of a view with the bitmask _tf over the
\* outer collection _urange.
Constructed(_urange, _tf) ==
    /\ urange = _urange
    /\ tf = _tf
    /\ selected_frames = view_translate_join(_tf)
    /\ ret = Void
    /\ it = NoIter
    /\ last = NoIter

Init ==
    /\ \E _urange \in Outers, _tf \in ConstructedFrames : Constructed(_urange, _tf)
    /\ const_iterable = TRUE
    /\ reader = Idle(Void)
    /\ stream = NoStream

\* Construction with every bitmask there is.
InitFrames ==
    /\ \E _urange \in Outers, _tf \in translation_frames : Constructed(_urange, _tf)
    /\ const_iterable = TRUE
    /\ reader = Idle(Void)
    /\ stream = NoStream

\* ------------------------------------------------------ the view's members

\* size() adding the two lengths where it should multiply them.
size_sum == (((Len(urange) % Modulus) + Len(selected_frames)) % Modulus)

\* size() stopping at the largest value of size_type where it should wrap.
size_saturating ==
    IF (Len(urange) % Modulus) * Len(selected_frames) < Modulus
    THEN (Len(urange) % Modulus) * Len(selected_frames)
    ELSE Modulus - 1

\* size(): (size_type) seqan3::size(urange) * selected_frames.size(), the
\* product converted to size_type.
size == (((Len(urange) % Modulus) * Len(selected_frames)) % Modulus)

\* begin() returning an iterator to the second element.
begin_second == 0 + 1

\* begin(): {*this, 0}
begin == 0

\* end() at the length of the outer collection instead of size().
end_outer == Len(urange) % Modulus

\* end(): {*this, size()}
end == size

\* index_frame taken modulo the capacity of the frame list.
index_frame_by_capacity(n) == n % 6

\* index_frame counted from one.
index_frame_from_one(n) == (n % Len(selected_frames)) + 1

\* operator[]: size_type index_frame = n % selected_frames.size();
index_frame(n) == n % Len(selected_frames)

\* index_urange dividing by the capacity of selected_frames instead of its size.
index_urange_by_capacity(n) == ((n - index_frame(n)) % Modulus) \div 6

\* operator[]: size_type index_urange = (n - index_frame) / selected_frames.size();
index_urange(n) == ((n - index_frame(n)) % Modulus) \div Len(selected_frames)

\* operator[] with the axes exchanged: the frames of one sequence are not
\* adjacent, the sequences of one frame are.
operator_subscript_by_frame(n) ==
    translate_single(urange[(n % Len(urange)) + 1], selected_frames[(n \div Len(urange)) + 1])

\* operator[]: urange[index_urange] | view::translate_single(selected_frames[index_frame])
\* (sequences of the model are indexed from 1).
operator_subscript(n) ==
    translate_single(urange[index_urange(n) + 1], selected_frames[index_frame(n) + 1])

\* size() const returning the length of the outer collection.
size_const_outer == Len(urange) % Modulus

\* size() const
size_const == (((Len(urange) % Modulus) * Len(selected_frames)) % Modulus)

\* begin() const: {*this, 0}
begin_const == 0

\* cbegin(): begin() of the const view
cbegin == begin_const

\* end() const: {*this, size()}
end_const == size_const

\* cend(): end() of the const view
cend == end_const

\* operator[](n) const
operator_subscript_const(n) ==
    translate_single(urange[index_urange(n) + 1], selected_frames[index_frame(n) + 1])

\* ---------------------------------------------- detail::random_access_iterator

\* An iterator over the view (is_const: over the const view) at a position.
random_access_iterator(is_const, pos) == [is_const |-> is_const, pos |-> pos]

\* The iterators the view hands out, by the name of the member function.
IteratorNames == { "begin", "end", "cbegin", "cend" }

ConstIteratorNames == { "cbegin", "cend" }

iterator_of(name) ==
    CASE name = "begin" -> random_access_iterator(FALSE, begin)
      [] name = "end" -> random_access_iterator(FALSE, end)
      [] name = "cbegin" -> random_access_iterator(TRUE, cbegin)
      [] name = "cend" -> random_access_iterator(TRUE, cend)

\* it + n
operator_plus(i, n) == random_access_iterator(i.is_const, i.pos + n)

\* n + it
operator_plus_commuted(n, i) == operator_plus(i, n)

\* it += n: the iterator after the assignment
operator_plus_assign(i, n) == random_access_iterator(i.is_const, i.pos + n)

\* lhs - rhs
operator_minus(lhs, rhs) == lhs.pos - rhs.pos

\* The position can be dereferenced: operator[] of the host asserts it.
dereferenceable(i) == i.pos < (IF i.is_const THEN size_const ELSE size)

\* *it: (*host)[pos]
operator_deref(i) ==
    IF i.is_const THEN operator_subscript_const(i.pos) ELSE operator_subscript(i.pos)

\* Comparisons are comparisons of positions, whichever view the iterators are over.
operator_eq(lhs, rhs) == lhs.pos = rhs.pos

operator_ne(lhs, rhs) == lhs.pos # rhs.pos

operator_lt(lhs, rhs) == lhs.pos < rhs.pos

operator_gt(lhs, rhs) == lhs.pos > rhs.pos

\* The expressions that reach the n-th element from begin() or cbegin().
IteratorForms == { "*(begin+n)", "*(n+begin)", "begin[n]", "*(begin+=n)" }

ConstIteratorForms == { "*(cbegin+n)", "*(n+cbegin)", "cbegin[n]", "*(cbegin+=n)" }

\* The iterator each expression dereferences; it[n] is *(it + n).
iterator_reached(form, n) ==
    LET b == iterator_of(IF form \in ConstIteratorForms THEN "cbegin" ELSE "begin")
    IN  CASE form \in { "*(begin+n)", "*(cbegin+n)" } -> operator_plus(b, n)
          [] form \in { "*(n+begin)", "*(n+cbegin)" } -> operator_plus_commuted(n, b)
          [] form \in { "begin[n]", "cbegin[n]" } -> operator_plus(b, n)
          [] form \in { "*(begin+=n)", "*(cbegin+=n)" } -> operator_plus_assign(b, n)

\* operator[] with the assertion moved behind the index arithmetic.
operator_subscript_outcome_late_assert(n, ndebug) ==
    IF Len(selected_frames) = 0 THEN "undefined"
    ELSE IF ~ndebug /\ ~(n < size) THEN "assert_fail"
    ELSE IF ~(index_urange(n) < Len(urange)) THEN "undefined"
    ELSE "element"

\* How a call of operator[](n) ends, statement by statement: the assertion
\* (compiled out when NDEBUG is defined), n % selected_frames.size(), which
\* is undefined for an empty frame list, and urange[index_urange], which is
\* undefined beyond the outer collection.
operator_subscript_outcome(n, ndebug) ==
    IF ~ndebug /\ ~(n < size) THEN "assert_fail"
    ELSE IF Len(selected_frames) = 0 THEN "undefined"
    ELSE IF ~(index_urange(n) < Len(urange)) THEN "undefined"
    ELSE "element"

\* ----------------------------------------------------------------- actions

\* A call of size() that resolves the frame list again, from all six frames.
size_call_resolving ==
    /\ Running
    /\ ret' = Returned("size", 0, size, NoElem)
    /\ selected_frames' = view_translate_join(SIX_FRAME)
    /\ UNCHANGED <<urange, tf, it, last>>
    /\ UNCHANGED aux

\* A call of size().
size_call ==
    /\ Running
    /\ ret' = Returned("size", 0, size, NoElem)
    /\ UNCHANGED <<urange, tf, selected_frames, it, last>>
    /\ UNCHANGED aux

\* A call of operator[](n) that meets its precondition, assert(n < size()).
subscript_call(n) ==
    /\ Running
    /\ n < size
    /\ ret' = Returned("subscript", n, 0, operator_subscript(n))
    /\ UNCHANGED <<urange, tf, selected_frames, it, last>>
    /\ UNCHANGED aux

\* A call of operator[](n) that does not meet its precondition, in a build
\* with assertions (ndebug = FALSE) or without. A failed assertion aborts the
\* program; without assertions the call is undefined, or, where size() is
\* less than the number of (sequence, frame) pairs, returns an element.
subscript_call_out_of_range(n, ndebug) ==
    /\ Running
    /\ ~(n < size)
    /\ LET outcome == operator_subscript_outcome(n, ndebug)
       IN  ret' = IF outcome = "element"
                  THEN Returned("subscript_unchecked", n, 0, operator_subscript(n))
                  ELSE Returned(outcome, 0, 0, NoElem)
    /\ UNCHANGED <<urange, tf, selected_frames, it, last>>
    /\ UNCHANGED aux

\* size() const without its requires clause.
size_const_call_unconstrained ==
    /\ Running
    /\ ret' = Returned("size_const", 0, size_const, NoElem)
    /\ UNCHANGED <<urange, tf, selected_frames, it, last>>
    /\ UNCHANGED aux

\* A call of size() on the const view; the overload exists where urng_t models
\* ConstIterableRange.
size_const_call ==
    /\ Running
    /\ const_iterable
    /\ ret' = Returned("size_const", 0, size_const, NoElem)
    /\ UNCHANGED <<urange, tf, selected_frames, it, last>>
    /\ UNCHANGED aux

\* A call of operator[](n) on the const view that meets its precondition.
subscript_const_call(n) ==
    /\ Running
    /\ const_iterable
    /\ n < size_const
    /\ ret' = Returned("subscript_const", n, 0, operator_subscript_const(n))
    /\ UNCHANGED <<urange, tf, selected_frames, it, last>>
    /\ UNCHANGED aux

\* A call of cbegin(), or of begin() on the const view.
cbegin_call ==
    /\ Running
    /\ const_iterable
    /\ it' = cbegin
    /\ ret' = Void
    /\ UNCHANGED <<urange, tf, selected_frames, last>>
    /\ UNCHANGED aux

\* A call of cend(), or of end() on the const view.
cend_call ==
    /\ Running
    /\ const_iterable
    /\ last' = cend
    /\ ret' = Void
    /\ UNCHANGED <<urange, tf, selected_frames, it>>
    /\ UNCHANGED aux

\* A call of begin(): the traversal's iterator is set to the first position.
begin_call ==
    /\ Running
    /\ it' = begin
    /\ ret' = Void
    /\ UNCHANGED <<urange, tf, selected_frames, last>>
    /\ UNCHANGED aux

\* A call of end(): the traversal's end iterator is set.
end_call ==
    /\ Running
    /\ last' = end
    /\ ret' = Void
    /\ UNCHANGED <<urange, tf, selected_frames, it>>
    /\ UNCHANGED aux

\* A dereference that moves the frame it has read to the front of the frame
\* list.
visit_promoting ==
    /\ Running
    /\ it # NoIter
    /\ last # NoIter
    /\ it # last
    /\ it < size
    /\ ret' = Returned("deref", it, 0, operator_subscript(it))
    /\ it' = it + 1
    /\ selected_frames' =
           <<selected_frames[index_frame(it) + 1]>> \o
           SubSeq(selected_frames, 1, index_frame(it)) \o
           SubSeq(selected_frames, index_frame(it) + 2, Len(selected_frames))
    /\ UNCHANGED <<urange, tf, last>>
    /\ UNCHANGED aux

\* A dereference that moves the sequence it reads out of the outer collection.
visit_consuming ==
    /\ Running
    /\ it # NoIter
    /\ last # NoIter
    /\ it # last
    /\ it < size
    /\ ret' = Returned("deref", it, 0, operator_subscript(it))
    /\ it' = it + 1
    /\ urange' = [urange EXCEPT ![index_urange(it) + 1] = <<>>]
    /\ UNCHANGED <<tf, selected_frames, last>>
    /\ UNCHANGED aux

\* One round of `while (b != e) { ... *b; ++b; }`: the iterator is
\* dereferenced, which calls operator[] of the view with its position, and
\* then incremented.
visit ==
    /\ Running
    /\ it # NoIter
    /\ last # NoIter
    /\ it # last
    /\ it < size
    /\ ret' = Returned("deref", it, 0, operator_subscript(it))
    /\ it' = it + 1
    /\ UNCHANGED <<urange, tf, selected_frames, last>>
    /\ UNCHANGED aux

\* One of the expressions *(begin() + n), *(n + begin()), begin()[n] and
\* *(it += n) with it = begin(), or the same from cbegin(), is evaluated for
\* an n < size(), together with (begin() + n) - begin(), which is returned in
\* the place of the size. A position that cannot be dereferenced fails the
\* assertion of operator[].
iterator_access(form, n) ==
    /\ Running
    /\ form \in ConstIteratorForms => const_iterable
    /\ n < size
    /\ LET b == iterator_of(IF form \in ConstIteratorForms THEN "cbegin" ELSE "begin")
           reached == iterator_reached(form, n)
       IN  ret' = IF dereferenceable(reached)
                  THEN Returned(form, n, operator_minus(operator_plus(b, n), b),
                                operator_deref(reached))
                  ELSE Returned("assert_fail", 0, 0, NoElem)
    /\ UNCHANGED <<urange, tf, selected_frames, it, last>>
    /\ UNCHANGED aux

\* Two of begin(), end(), cbegin() and cend() are compared with ==, !=, < and >.
compare_call(lhs, rhs) ==
    /\ Running
    /\ (lhs \in ConstIteratorNames \/ rhs \in ConstIteratorNames) => const_iterable
    /\ LET l == iterator_of(lhs)
           r == iterator_of(rhs)
       IN  ret' = [Void EXCEPT !.op = "compare",
                               !.cmp = Compared(lhs, rhs, operator_eq(l, r), operator_ne(l, r),
                                                operator_lt(l, r), operator_gt(l, r))]
    /\ UNCHANGED <<urange, tf, selected_frames, it, last>>
    /\ UNCHANGED aux

\* The second thread calls size() and reads seqan3::size(urange).
reader_size_outer ==
    /\ reader.pc = "idle"
    /\ reader' = [Idle(Void) EXCEPT !.pc = "size_outer", !.outer_size = Len(urange) % Modulus]
    /\ UNCHANGED <<urange, tf, selected_frames, ret, it, last, const_iterable, stream>>

\* It reads selected_frames.size(), multiplies and returns.
reader_size_return ==
    /\ reader.pc = "size_outer"
    /\ reader' = Idle(Returned("size", 0, (reader.outer_size * Len(selected_frames)) % Modulus,
                                NoElem))
    /\ UNCHANGED <<urange, tf, selected_frames, ret, it, last, const_iterable, stream>>

\* The second thread calls operator[](n) and passes assert(n < size()).
reader_subscript_assert(n) ==
    /\ reader.pc = "idle"
    /\ n < size
    /\ reader' = [Idle(Void) EXCEPT !.pc = "asserted", !.n = n]
    /\ UNCHANGED <<urange, tf, selected_frames, ret, it, last, const_iterable, stream>>

\* size_type index_frame = n % selected_frames.size();
reader_subscript_index_frame ==
    /\ reader.pc = "asserted"
    /\ reader' = [reader EXCEPT !.pc = "index_frame",
                                 !.index_frame = reader.n % Len(selected_frames)]
    /\ UNCHANGED <<urange, tf, selected_frames, ret, it, last, const_iterable, stream>>

\* size_type index_urange = (n - index_frame) / selected_frames.size();
reader_subscript_index_urange ==
    /\ reader.pc = "index_frame"
    /\ reader' = [reader EXCEPT !.pc = "index_urange",
                                 !.index_urange = ((reader.n - reader.index_frame) % Modulus)
                                                      \div Len(selected_frames)]
    /\ UNCHANGED <<urange, tf, selected_frames, ret, it, last, const_iterable, stream>>

\* return urange[index_urange] | view::translate_single(selected_frames[index_frame]);
reader_subscript_return ==
    /\ reader.pc = "index_urange"
    /\ reader' = Idle(Returned("subscript", reader.n, 0,
                                translate_single(urange[reader.index_urange + 1],
                                                 selected_frames[reader.index_frame + 1])))
    /\ UNCHANGED <<urange, tf, selected_frames, ret, it, last, const_iterable, stream>>

\* A round of the loop at a position that is not below size(), which the
\* iterator has reached because end() was obtained before the view shrank or
\* begin() after: the dereference calls operator[] out of its range, which
\* fails the assertion or, without assertions, is undefined or, where size()
\* is less than the number of (sequence, frame) pairs, returns an element.
visit_out_of_range(ndebug) ==
    /\ Running
    /\ it # NoIter
    /\ last # NoIter
    /\ it # last
    /\ it \in size_type
    /\ ~(it < size)
    /\ LET outcome == operator_subscript_outcome(it, ndebug)
       IN  IF outcome = "element"
           THEN /\ ret' = Returned("deref_unchecked", it, 0, operator_subscript(it))
                /\ it' = it + 1
           ELSE /\ ret' = Returned(outcome, 0, 0, NoElem)
                /\ it' = it
    /\ UNCHANGED <<urange, tf, selected_frames, last>>
    /\ UNCHANGED aux

\* ------------------------------------------- operator<<(debug_stream, range)

\* What the stream receives: a character of punctuation, or an element.
Punct(c) == <<c>>

Elem(v) == <<"elem", v>>

\* The ranges of the documentation: {'C'_dna4, 'G'_dna4, 'A'_dna4} and {3, 1, 33, 7}.
PrintedSymbols == <<"C", "G", "A">>

PrintedNumbers == <<"3", "1", "33", "7">>

Prefixes(s) == { SubSeq(s, 1, k) : k \in 0 .. Len(s) }

\* A range handed to operator<<, nothing printed yet: is_alphabet is
\* Alphabet<reference_t<rng_t>>, is_uint_adaptation is is_uint_adaptation_v of it.
Printing(is_view, elems, is_alphabet, is_uint_adaptation) ==
    [pc |-> "start", is_view |-> is_view, elems |-> elems, is_alphabet |-> is_alphabet,
     is_uint_adaptation |-> is_uint_adaptation, b |-> 0, e |-> 0, out |-> <<>>]

\* The joined view, ranges of nucleotides, of unsigned integers, which model
\* Alphabet by adaptation, and of signed integers, which do not.
PrintedRanges ==
    { Printing(TRUE, <<>>, FALSE, FALSE) }
    \cup { Printing(FALSE, elems, TRUE, FALSE) : elems \in Prefixes(PrintedSymbols) }
    \cup { Printing(FALSE, elems, TRUE, TRUE) : elems \in Prefixes(PrintedNumbers) }
    \cup { Printing(FALSE, elems, FALSE, FALSE) : elems \in Prefixes(PrintedNumbers) }

\* begin(r), end(r) and *b of the printed range, as positions from 0.
range_begin == IF stream.is_view THEN begin ELSE 0

range_end == IF stream.is_view THEN end ELSE Len(stream.elems)

range_at(b) == IF stream.is_view THEN operator_subscript(b) ELSE stream.elems[b + 1]

\* if constexpr (Alphabet<reference_t<rng_t>> && !is_uint_adaptation_v<...>)
printed_as_string == stream.is_alphabet /\ ~stream.is_uint_adaptation

\* for (auto && l : r): the loop is entered.
print_symbols_begin ==
    /\ stream.pc = "start"
    /\ printed_as_string
    /\ stream' = [stream EXCEPT !.pc = "symbols", !.b = range_begin, !.e = range_end]
    /\ UNCHANGED <<urange, tf, selected_frames, ret, it, last, const_iterable, reader>>

\* s << l;
print_symbol ==
    /\ stream.pc = "symbols"
    /\ stream.b # stream.e
    /\ stream' = [stream EXCEPT !.out = Append(stream.out, Elem(range_at(stream.b))),
                                 !.b = stream.b + 1]
    /\ UNCHANGED <<urange, tf, selected_frames, ret, it, last, const_iterable, reader>>

\* The loop is left; return s.
print_symbols_end ==
    /\ stream.pc = "symbols"
    /\ stream.b = stream.e
    /\ stream' = [stream EXCEPT !.pc = "done"]
    /\ UNCHANGED <<urange, tf, selected_frames, ret, it, last, const_iterable, reader>>

\* s << '['; auto b = begin(r); auto e = end(r);
print_open ==
    /\ stream.pc = "start"
    /\ ~printed_as_string
    /\ stream' = [stream EXCEPT !.pc = "first", !.out = Append(stream.out, Punct("[")),
                                 !.b = range_begin, !.e = range_end]
    /\ UNCHANGED <<urange, tf, selected_frames, ret, it, last, const_iterable, reader>>

\* The first element printed like the others, behind a ','.
print_first_with_comma ==
    /\ stream.pc = "first"
    /\ stream' = IF stream.b # stream.e
                  THEN [stream EXCEPT !.pc = "rest",
                                      !.out = stream.out \o <<Punct(","), Elem(range_at(stream.b))>>,
                                      !.b = stream.b + 1]
                  ELSE [stream EXCEPT !.pc = "rest"]
    /\ UNCHANGED <<urange, tf, selected_frames, ret, it, last, const_iterable, reader>>

\* if (b != e) { s << *b; ++b; }
print_first ==
    /\ stream.pc = "first"
    /\ stream' = IF stream.b # stream.e
                  THEN [stream EXCEPT !.pc = "rest",
                                      !.out = Append(stream.out, Elem(range_at(stream.b))),
                                      !.b = stream.b + 1]
                  ELSE [stream EXCEPT !.pc = "rest"]
    /\ UNCHANGED <<urange, tf, selected_frames, ret, it, last, const_iterable, reader>>

\* while (b != e) { s << ','; s << *b; ++b; }
print_next ==
    /\ stream.pc = "rest"
    /\ stream.b # stream.e
    /\ stream' = [stream EXCEPT !.out = stream.out \o <<Punct(","), Elem(range_at(stream.b))>>,
                                 !.b = stream.b + 1]
    /\ UNCHANGED <<urange, tf, selected_frames, ret, it, last, const_iterable, reader>>

\* s << ']'; return s;
print_close ==
    /\ stream.pc = "rest"
    /\ stream.b = stream.e
    /\ stream' = [stream EXCEPT !.pc = "done", !.out = Append(stream.out, Punct("]"))]
    /\ UNCHANGED <<urange, tf, selected_frames, ret, it, last, const_iterable, reader>>

\* The traversal's iterators go out of scope.
drop_iterators ==
    /\ Running
    /\ it # NoIter \/ last # NoIter
    /\ it' = NoIter
    /\ last' = NoIter
    /\ ret' = Void
    /\ UNCHANGED <<urange, tf, selected_frames>>
    /\ UNCHANGED aux

\* operator=(rhs), copy or move, defaulted: every member is taken from rhs,
\* a view over the same outer collection constructed with the frames rhs_tf.
operator_assign(rhs_tf) ==
    /\ Running
    /\ tf' = rhs_tf
    /\ selected_frames' = view_translate_join(rhs_tf)
    /\ ret' = Void
    /\ UNCHANGED <<urange, it, last>>
    /\ UNCHANGED aux

\* The ways to make a view without naming the frames.
ConstructionForms == { "from_view", "from_range", "adaptor", "pipe" }

\* view_translate_join(urng_t _urange, translation_frames const _tf = SIX_FRAME)
constructor_from_view_default == SIX_FRAME

\* view_translate_join(rng_t && _urange, translation_frames const _tf = SIX_FRAME),
\* which delegates to the constructor from a view with _tf.
constructor_from_range_default == SIX_FRAME

\* translate_join_fn::operator()(urng_t && urange, translation_frames const tf = SIX_FRAME):
\* the bitmask it hands to the constructor.
translate_join_fn_call(_tf) == _tf

\* translate_join_fn::operator()(urange) with the default argument.
translate_join_fn_default == translate_join_fn_call(SIX_FRAME)

\* operator|(urange, translate_join_fn const & me): me(urange).
translate_join_fn_pipe == translate_join_fn_default

\* The bitmask that reaches the constructor in each form.
frames_of_form(form) ==
    CASE form = "from_view" -> constructor_from_view_default
      [] form = "from_range" -> constructor_from_range_default
      [] form = "adaptor" -> translate_join_fn_default
      [] form = "pipe" -> translate_join_fn_pipe

\* A view is made over the outer collection without naming the frames and
\* takes the place of the view: it has no iterators yet.
construct_default(form) ==
    /\ Running
    /\ tf' = frames_of_form(form)
    /\ selected_frames' = view_translate_join(frames_of_form(form))
    /\ ret' = Void
    /\ it' = NoIter
    /\ last' = NoIter
    /\ UNCHANGED urange
    /\ UNCHANGED aux

\* The owner of the outer collection appends a sequence to it.
push_back(inner) ==
    /\ Running
    /\ Len(urange) < MaxOuter
    /\ urange' = Append(urange, inner)
    /\ ret' = Void
    /\ UNCHANGED <<tf, selected_frames, it, last>>
    /\ UNCHANGED aux

\* The owner of the outer collection removes its last sequence.
pop_back ==
    /\ Running
    /\ Len(urange) > 0
    /\ urange' = SubSeq(urange, 1, Len(urange) - 1)
    /\ ret' = Void
    /\ UNCHANGED <<tf, selected_frames, it, last>>
    /\ UNCHANGED aux

\* The owner of the outer collection empties it.
clear ==
    /\ Running
    /\ urange' = <<>>
    /\ ret' = Void
    /\ UNCHANGED <<tf, selected_frames, it, last>>
    /\ UNCHANGED aux

Next ==
    \/ size_call
    \/ \E n \in size_type : subscript_call(n)
    \/ \E n \in size_type, ndebug \in BOOLEAN : subscript_call_out_of_range(n, ndebug)
    \/ \E form \in ConstructionForms : construct_default(form)
    \/ size_const_call
    \/ \E n \in size_type : subscript_const_call(n)
    \/ begin_call
    \/ end_call
    \/ cbegin_call
    \/ cend_call
    \/ visit
    \/ \E ndebug \in BOOLEAN : visit_out_of_range(ndebug)
    \/ drop_iterators
    \/ \E rhs_tf \in AssignedFrames : operator_assign(rhs_tf)
    \/ \E inner \in InnerSeqs : push_back(inner)
    \/ pop_back
    \/ clear

Spec == Init /\ [][Next]_vars

\* Views constructed with each of the 64 bitmasks, constructed again without
\* one, assigned to and asked for their size.
NextFrames ==
    \/ size_call
    \/ \E rhs_tf \in AssignedFrames : operator_assign(rhs_tf)
    \/ \E form \in ConstructionForms : construct_default(form)

SpecFrames == InitFrames /\ [][NextFrames]_vars

\* Views over an outer range that models ConstIterableRange and over one that
\* does not.
InitIter ==
    /\ \E _urange \in Outers, _tf \in ConstructedFrames : Constructed(_urange, _tf)
    /\ const_iterable \in BOOLEAN
    /\ reader = Idle(Void)
    /\ stream = NoStream

\* The view is read, through its members and through its iterators.
NextIter ==
    \/ size_call
    \/ size_const_call
    \/ \E n \in size_type : subscript_call(n)
    \/ \E n \in size_type : subscript_const_call(n)
    \/ begin_call
    \/ end_call
    \/ cbegin_call
    \/ cend_call
    \/ \E form \in IteratorForms \cup ConstIteratorForms, n \in size_type : iterator_access(form, n)
    \/ \E lhs \in IteratorNames, rhs \in IteratorNames : compare_call(lhs, rhs)

SpecIter == InitIter /\ [][NextIter]_vars

\* Two threads read one view and nothing mutates the collections: one
\* traverses it and asks for its size, the other calls size() and operator[],
\* and the statements of the two interleave.
NextReaders ==
    \/ size_call
    \/ begin_call
    \/ end_call
    \/ visit
    \/ reader_size_outer
    \/ reader_size_return
    \/ \E n \in size_type : reader_subscript_assert(n)
    \/ reader_subscript_index_frame
    \/ reader_subscript_index_urange
    \/ reader_subscript_return

SpecReaders == Init /\ [][NextReaders]_vars

\* A view is constructed and it or another range is printed.
InitPrint ==
    /\ \E _urange \in Outers, _tf \in ConstructedFrames : Constructed(_urange, _tf)
    /\ const_iterable = TRUE
    /\ reader = Idle(Void)
    /\ stream \in PrintedRanges

NextPrint ==
    \/ print_symbols_begin
    \/ print_symbol
    \/ print_symbols_end
    \/ print_open
    \/ print_first
    \/ print_next
    \/ print_close

SpecPrint == InitPrint /\ [][NextPrint]_vars

\* ------------------------------------------------------------ the claims

\* The six frames in the canonical order.
CanonicalOrder ==
    <<FWD_FRAME_0, FWD_FRAME_1, FWD_FRAME_2, REV_FRAME_0, REV_FRAME_1, REV_FRAME_2>>

\* The bit of frame F is set in the bitmask b (F is a power of two).
IsBitSet(b, F) == (b \div F) % 2 = 1

\* The place of frame F in the canonical order.
CanonicalPlace(F) == CHOOSE k \in DOMAIN CanonicalOrder : CanonicalOrder[k] = F

\* The outer length and the frame count as mathematical integers.
outer_length == Len(urange)
frame_count == Len(selected_frames)

\* A step that resizes the outer collection.
Resize == (\E inner \in InnerSeqs : push_back(inner)) \/ pop_back \/ clear

\* C1: for every bitmask the frame list the constructor builds has between 0
\* and 6 entries, no duplicates, holds a frame exactly when its bit is set,
\* and lists the frames in the canonical order.
C1_FrameListCanonical ==
    /\ Len(selected_frames) \in 0 .. 6
    /\ \A i, j \in DOMAIN selected_frames : i # j => selected_frames[i] # selected_frames[j]
    /\ \A k \in DOMAIN CanonicalOrder :
          (\E i \in DOMAIN selected_frames : selected_frames[i] = CanonicalOrder[k])
             <=> IsBitSet(tf, CanonicalOrder[k])
    /\ \A i \in DOMAIN selected_frames :
          \E k \in DOMAIN CanonicalOrder : selected_frames[i] = CanonicalOrder[k]
    /\ \A i, j \in DOMAIN selected_frames :
          i < j => CanonicalPlace(selected_frames[i]) < CanonicalPlace(selected_frames[j])

\* C1 witness: a view built from a bitmask with three frames, forward and
\* reverse, none of them adjacent.
C1_Witness ==
    /\ tf = FWD_FRAME_1 + REV_FRAME_0 + REV_FRAME_2
    /\ selected_frames = <<FWD_FRAME_1, REV_FRAME_0, REV_FRAME_2>>

\* C2: size() returns the outer length times the length of the frame list.
C2_SizeIsProduct ==
    ret.op = "size" => ret.size = outer_length * frame_count

\* C3: operator[](n) with n < size() returns the translation of
\* outer[n div s] under frames[n mod s].
C3_ElementOfIndex ==
    ret.op = "subscript" =>
        ret.elem = translate_single(urange[(ret.n \div frame_count) + 1], selected_frames[(ret.n % frame_count) + 1])

\* C3 witness: operator[](3) returned on a view of two frames, the second
\* frame of the second sequence.
C3_Witness ==
    /\ ret.op = "subscript"
    /\ ret.n = 3
    /\ frame_count = 2
    /\ ret.elem = translate_single(urange[2], selected_frames[2])

\* C4: for every sequence index i < outer_length the flat indices i*s .. i*s+frame_count-1 are
\* elements of the view and hold the translations of outer[i] under all the
\* selected frames, in the order of the frame list.
C4_FrameGrouping ==
    \A i \in 0 .. (outer_length - 1) : \A j \in 0 .. (frame_count - 1) :
        /\ (i * frame_count + j) \in size_type
        /\ (i * frame_count + j) < size
        /\ operator_subscript(i * frame_count + j) = translate_single(urange[i + 1], selected_frames[j + 1])

RECURSIVE view_translate(_, _, _)
view_translate(inner, b, k) ==
    IF k > Len(CanonicalOrder)
    THEN <<>>
    ELSE (IF IsBitSet(b, CanonicalOrder[k])
          THEN <<translate_single(inner, CanonicalOrder[k])>>
          ELSE <<>>) \o view_translate(inner, b, k + 1)

\* std::view::join of the frame lists of the first k sequences.
RECURSIVE translate_then_join(_)
translate_then_join(k) ==
    IF k = 0
    THEN <<>>
    ELSE translate_then_join(k - 1) \o view_translate(urange[k], tf, 1)

\* C6: the joined view has the length of, and at every position the element
\* of, the concatenation in input order of the frame lists of the sequences.
C6_SameAsTranslateThenJoin ==
    LET joined == translate_then_join(outer_length)
    IN  /\ size = Len(joined)
        /\ \A n \in 0 .. (Len(joined) - 1) :
              n < size /\ operator_subscript(n) = joined[n + 1]

\* C7: after every resize of the outer collection size() is the current outer
\* length times the frame count.
C7_SizeTracksResize ==
    [][Resize => size' = outer_length' * frame_count']_vars

\* C8: the frame list never changes, whichever operation is performed.
C8_FramesNeverChange ==
    [][selected_frames' = selected_frames]_vars

\* C8, amended: the frame list of a view changes only by an assignment to the
\* view, which replaces it by the frame list of the assigned view (the
\* construction of a view sets it in the first place); size, indexed
\* access, begin, end, traversal and resizes of the outer collection leave it
\* and the bitmask unchanged.
C8_FramesChangeOnlyByAssignment ==
    [][(selected_frames' # selected_frames \/ tf' # tf) =>
           /\ \/ tf' \in AssignedFrames /\ operator_assign(tf')
              \/ \E form \in ConstructionForms : construct_default(form)
           /\ C1_FrameListCanonical']_vars

\* C8 witness: a traversal has visited the whole of a view of three frames
\* over two sequences, and its frame list is the one of its bitmask.
C8_Witness ==
    /\ ret.op = "deref"
    /\ it = last
    /\ it = 6
    /\ tf = FWD_FRAME_1 + REV_FRAME_0 + REV_FRAME_2
    /\ selected_frames = <<FWD_FRAME_1, REV_FRAME_0, REV_FRAME_2>>

\* C9: with the bitmask 0 the frame list is empty, size() returns 0 whatever
\* the outer collection, operator[] has no index that meets its precondition,
\* end() is begin() and a traversal visits nothing.
C9_EmptyBitmask ==
    /\ [](tf = 0 => selected_frames = <<>>)
    /\ [](tf = 0 /\ ret.op = "size" => ret.size = 0)
    /\ [][tf = 0 => ~(visit \/ \E n \in size_type : subscript_call(n))]_vars
    /\ [][tf = 0 /\ end_call => last' = begin]_vars

\* C9 witness: on a view with the bitmask 0 over two sequences begin() and
\* end() were obtained and size() was called.
C9_Witness ==
    /\ tf = 0
    /\ outer_length = 2
    /\ it = 0
    /\ last = 0
    /\ ret.op = "size"
    /\ ret.size = 0

\* C10: over an empty outer collection size() is 0 for every bitmask but 0.
C10_EmptyOuter ==
    (outer_length = 0 /\ tf # 0) =>
        /\ size = 0
        /\ ret.op = "size" => ret.size = 0

\* C10 witness: size() returned on a view of all six frames over an empty
\* outer collection.
C10_Witness ==
    /\ outer_length = 0
    /\ tf = SIX_FRAME
    /\ frame_count = 6
    /\ ret.op = "size"

\* C11: a view made without naming the frames, in each of the four forms, has
\* the frame list of all six frames in canonical order, and its size() is six
\* times the length of the outer collection.
C11_DefaultIsSixFrame ==
    [][(\E form \in ConstructionForms : construct_default(form)) =>
           /\ selected_frames' = CanonicalOrder
           /\ size' = 6 * outer_length']_vars

\* C12: a traversal starts at flat index 0, its k-th dereference yields the
\* element at flat index k, which is frame k mod s of sequence k div s, and
\* moves on by one, and end() lies behind all frames of all sequences, at
\* size() = m * s, so that the traversal visits every frame of sequence 0,
\* then every frame of sequence 1, and so on, and stops.
C12_TraversalVisitsAllInOrder ==
    /\ [][begin_call \/ cbegin_call => it' = 0]_vars
    /\ [][visit =>
             /\ ret'.n = it
             /\ ret'.elem = translate_single(urange[(it \div frame_count) + 1],
                                             selected_frames[(it % frame_count) + 1])
             /\ it' = it + 1]_vars
    /\ [][end_call \/ cend_call =>
             /\ last' = size
             /\ last' = outer_length * frame_count]_vars

\* A step by an operation that reads the view, told by what it returned: a
\* call of operator[] has returned its index with the element, and the calls
\* of operator[] out of its range are the only steps that end in a failed
\* assertion or in undefined behaviour.
ReadStep ==
    \/ ret'.op = "size" /\ size_call
    \/ ret'.op = "size_const" /\ size_const_call
    \/ ret'.op = "subscript" /\ subscript_call(ret'.n)
    \/ ret'.op = "subscript_const" /\ subscript_const_call(ret'.n)
    \/ ret'.op = "subscript_unchecked" /\ subscript_call_out_of_range(ret'.n, TRUE)
    \/ ret'.op \in { "assert_fail", "undefined" }
    \/ ret'.op = "deref" /\ visit
    \/ ret'.op = "deref_unchecked" /\ visit_out_of_range(TRUE)
    \/ ret'.op = "void" /\ (begin_call \/ end_call \/ cbegin_call \/ cend_call)

\* C14: a call of size() right after a call of size() returns the same value,
\* a call of operator[](n) right after a call of operator[](n) yields an
\* element bound to the same sequence and frame, and after any call of
\* size() or operator[](n) the same call would return what it has returned.
C14_RepeatedCallsAgree ==
    /\ [][ret.op = "size" /\ ret'.op = "size" /\ size_call =>
             ret'.size = ret.size]_vars
    /\ [][ret.op = "subscript" /\ ret'.op = "subscript" /\ ret'.n = ret.n
             /\ subscript_call(ret.n) =>
                 ret'.elem = ret.elem]_vars
    /\ [][ret'.op = "size" /\ size_call => size' = ret'.size]_vars
    /\ [][ret'.op = "subscript" /\ subscript_call(ret'.n) =>
             /\ ret'.n < size'
             /\ \A n \in size_type :
                    n = ret'.n => operator_subscript(n)' = ret'.elem]_vars

\* C14 witness: end() took size() as 4, the traversal read the four elements
\* and size() then returned 4 again.
C14_Witness ==
    /\ ret.op = "size"
    /\ ret.size = 4
    /\ last = 4
    /\ it = last

\* C15: no read (size, operator[], begin, end, cbegin, cend, a dereference
\* or an increment of a traversal) changes the outer collection, its inner
\* sequences, the bitmask or the frame list, which are all the view holds.
C15_ReadsLeaveViewUnchanged ==
    [][ReadStep => UNCHANGED <<urange, tf, selected_frames>>]_vars

\* C15 witness: a traversal over two sequences in three frames has read all
\* six elements and the outer collection still holds both sequences.
C15_Witness ==
    /\ ret.op = "deref"
    /\ ret.n = 5
    /\ it = 6
    /\ outer_length = 2
    /\ frame_count = 3
    /\ \A i \in 1 .. 2 : urange[i] \in InnerSeqs

\* C13: in a build with assertions operator[](n) with n >= size() ends in the
\* failed assertion, whatever the frame list and the outer collection, and
\* produces no element; the program does not go on after it; and an element
\* returned by operator[] or a dereference has an index below size().
C13_AssertionBeforeAccess ==
    /\ [][ret'.op \in { "assert_fail", "undefined", "subscript_unchecked" } =>
             \A n \in size_type :
                 subscript_call_out_of_range(n, FALSE) =>
                     /\ ret'.op = "assert_fail"
                     /\ ret'.elem = NoElem]_vars
    /\ [][ret.op # "assert_fail"]_vars
    /\ [](ret.op \in { "subscript", "deref" } => ret.n < size)

\* C13 witness: the assertion has failed on a view with the empty frame list
\* over two sequences, where every index is out of range.
C13_Witness ==
    /\ ret.op = "assert_fail"
    /\ frame_count = 0
    /\ outer_length = 2

\* A step by one of the members of the const view.
ConstStep ==
    \/ ret'.op = "size_const"
    \/ ret'.op = "subscript_const"
    \/ ret'.op \in ConstIteratorForms
    \/ ret'.op = "compare" /\ (ret'.cmp.lhs \in ConstIteratorNames \/ ret'.cmp.rhs \in ConstIteratorNames)
    \/ cbegin_call
    \/ cend_call

\* C16: the members of the const view (begin, end, cbegin, cend, size,
\* operator[]) can be called exactly where the wrapped outer range models
\* ConstIterableRange: every step by one of them is on such a view, on such a
\* view each of them can be called, and on any other none of them can.
C16_ConstAccessIffConstIterable ==
    /\ [][ConstStep => const_iterable]_vars
    /\ [](Running /\ const_iterable =>
             /\ ENABLED size_const_call
             /\ ENABLED cbegin_call
             /\ ENABLED cend_call
             /\ \A n \in size_type : n < size => ENABLED subscript_const_call(n))
    /\ [](~const_iterable =>
             /\ ~ENABLED size_const_call
             /\ ~ENABLED cbegin_call
             /\ ~ENABLED cend_call
             /\ \A n \in size_type : ~ENABLED subscript_const_call(n))

\* C16 witness: operator[] of the const view has returned the element at
\* index 3 of a view over a range that models ConstIterableRange.
C16_Witness ==
    /\ const_iterable
    /\ ret.op = "subscript_const"
    /\ ret.n = 3

\* C18: for every n < size() the iterators begin() + n, n + begin(),
\* begin() advanced by += n can be dereferenced and yield, as begin()[n]
\* does, the element operator[](n) returns; (begin() + n) - begin() is n;
\* the expressions leave begin() and the view as they are; and the same
\* holds from cbegin() where the view can be traversed read-only.
C18_IteratorAccessIsSubscript ==
    /\ [](\A n \in size_type : n < size =>
             \A form \in IteratorForms \cup (IF const_iterable THEN ConstIteratorForms ELSE {}) :
                 LET b == iterator_of(IF form \in ConstIteratorForms THEN "cbegin" ELSE "begin")
                 IN  /\ dereferenceable(iterator_reached(form, n))
                     /\ operator_deref(iterator_reached(form, n)) = operator_subscript(n)
                     /\ operator_minus(operator_plus(b, n), b) = n)
    /\ [](ret.op \in IteratorForms \cup ConstIteratorForms =>
             /\ ret.n < size
             /\ ret.elem = operator_subscript(ret.n)
             /\ ret.size = ret.n)
    /\ [][ret'.op \in IteratorForms \cup ConstIteratorForms =>
             /\ iterator_of("begin")' = iterator_of("begin")
             /\ iterator_of("cbegin")' = iterator_of("cbegin")
             /\ UNCHANGED <<urange, tf, selected_frames>>]_vars

\* C18 witness: *(n + cbegin()) was evaluated for n = 5 on a view of three
\* frames over two sequences.
C18_Witness ==
    /\ ret.op = "*(n+cbegin)"
    /\ ret.n = 5
    /\ frame_count = 3
    /\ outer_length = 2

BeginNames == { "begin", "cbegin" }

EndNames == { "end", "cend" }

\* C19: a begin iterator equals an end iterator exactly when size() is 0;
\* when size() > 0 they differ, begin is less than end and end is greater
\* than begin; and iterators at the same position are equal in both operand
\* orders, whether they are over the const view or not.
C19_BeginEqualsEndIffEmpty ==
    ret.op = "compare" =>
        LET c == ret.cmp
        IN  /\ (c.lhs \in BeginNames /\ c.rhs \in EndNames) =>
                   /\ c.eq <=> size = 0
                   /\ size > 0 => c.ne /\ c.lt /\ ~c.gt
            /\ (c.lhs \in EndNames /\ c.rhs \in BeginNames) =>
                   /\ c.eq <=> size = 0
                   /\ size > 0 => c.ne /\ c.gt /\ ~c.lt
            /\ ((c.lhs \in BeginNames /\ c.rhs \in BeginNames)
                   \/ (c.lhs \in EndNames /\ c.rhs \in EndNames)) =>
                   c.eq /\ ~c.ne /\ ~c.lt /\ ~c.gt

\* C19 witness: cbegin() was compared with end() on a view of four elements.
C19_Witness ==
    /\ ret.op = "compare"
    /\ ret.cmp.lhs = "cbegin"
    /\ ret.cmp.rhs = "end"
    /\ ret.cmp.lt
    /\ size = 4

\* C17: with two threads reading in any interleaving and no mutation, size()
\* returns to either thread the size of the view, operator[](n) and a
\* dereference yield the element of the index, as they do when called with
\* no other thread around, and no step of either thread writes the outer
\* collection, the bitmask or the frame list.
C17_ConcurrentReaders ==
    /\ [](reader.result.op = "size" => reader.result.size = size)
    /\ [](reader.result.op = "subscript" =>
             reader.result.elem = operator_subscript(reader.result.n))
    /\ [](ret.op = "size" => ret.size = size)
    /\ [](ret.op = "deref" => ret.elem = operator_subscript(ret.n))
    /\ [][UNCHANGED <<urange, tf, selected_frames>>]_vars

\* C17 witness: the second thread has got the element at index 4 from
\* operator[] while the first thread was in the middle of its traversal.
C17_Witness ==
    /\ reader.pc = "idle"
    /\ reader.result.op = "subscript"
    /\ reader.result.n = 4
    /\ ret.op = "deref"
    /\ it = 2
    /\ last = 6

\* The elements of the printed range in iteration order, as the stream
\* receives them.
PrintedElements == [k \in 1 .. (range_end - range_begin) |-> Elem(range_at(range_begin + k - 1))]

\* The elements with a ',' between every two of them.
RECURSIVE CommaSeparated(_)
CommaSeparated(els) ==
    IF Len(els) <= 1 THEN els
    ELSE CommaSeparated(SubSeq(els, 1, Len(els) - 1)) \o <<Punct(","), els[Len(els)]>>

Bracketed(els) == <<Punct("[")>> \o CommaSeparated(els) \o <<Punct("]")>>

Commas(out) == Cardinality({ i \in DOMAIN out : out[i] = Punct(",") })

\* The bracketed form: '[', the elements once each in order with a ',' between
\* two of them, ']', with max(k - 1, 0) commas for k elements.
PrintedBracketed ==
    /\ stream.out = Bracketed(PrintedElements)
    /\ Commas(stream.out) = (IF Len(PrintedElements) = 0 THEN 0 ELSE Len(PrintedElements) - 1)
    /\ Len(PrintedElements) = 0 => stream.out = <<Punct("["), Punct("]")>>

\* C20: a printed range whose elements are not alphabet symbols has the
\* bracketed form, and one whose elements are alphabet symbols is printed as
\* the symbols alone.
C20_PrintedAsClaimed ==
    stream.pc = "done" =>
        IF stream.is_alphabet THEN stream.out = PrintedElements ELSE PrintedBracketed

\* C20, amended: a range whose elements are alphabet symbols other than
\* unsigned integers is printed as the symbols alone; every other range,
\* those of unsigned integers included, has the bracketed form.
C20_PrintedForm ==
    stream.pc = "done" =>
        IF stream.is_alphabet /\ ~stream.is_uint_adaptation
        THEN stream.out = PrintedElements
        ELSE PrintedBracketed

\* C20 witness: the joined view of two frames over two sequences was printed:
\* two brackets, four elements and three commas.
C20_Witness ==
    /\ stream.pc = "done"
    /\ stream.is_view
    /\ size = 4
    /\ frame_count = 2
    /\ Len(stream.out) = 9

\* C21: where the const overloads exist, size() const returns what size()
\* returns, operator[](n) const yields for every n < size() the element
\* operator[](n) yields, *(cbegin() + n) is *(begin() + n), and what the
\* const calls have returned is what the non-const calls return.
C21_ConstOverloadsAgree ==
    const_iterable =>
        /\ size_const = size
        /\ \A n \in size_type : n < size =>
               /\ operator_subscript_const(n) = operator_subscript(n)
               /\ operator_deref(operator_plus(iterator_of("cbegin"), n))
                      = operator_deref(operator_plus(iterator_of("begin"), n))
        /\ ret.op = "size_const" => ret.size = size
        /\ ret.op = "subscript_const" => ret.elem = operator_subscript(ret.n)
        /\ ret.op = "*(cbegin+n)" => ret.elem = operator_deref(operator_plus(iterator_of("begin"), ret.n))

\* C21 witness: *(cbegin() + n) was evaluated for n = 2 on a view of two
\* frames over two sequences.
C21_Witness ==
    /\ const_iterable
    /\ ret.op = "*(cbegin+n)"
    /\ ret.n = 2
    /\ frame_count = 2
    /\ outer_length = 2

\* C22: for every n < size() the frame index is below the length of the
\* frame list and the sequence index below the length of the outer
\* collection, and so were those of every element operator[] or a
\* dereference has returned.
C22_DelegatedAccessInBounds ==
    /\ \A n \in size_type : n < size =>
           /\ index_frame(n) < Len(selected_frames)
           /\ index_urange(n) < Len(urange)
    /\ ret.op \in { "subscript", "subscript_const", "deref" } =>
           /\ ret.n < size
           /\ index_frame(ret.n) + 1 \in DOMAIN selected_frames
           /\ index_urange(ret.n) + 1 \in DOMAIN urange

\* C22 witness: operator[] has returned the last element of a view of three
\* frames over two sequences, bound to the last sequence and the last frame.
C22_Witness ==
    /\ ret.op = "subscript"
    /\ ret.n = 5
    /\ size = 6
    /\ frame_count = 3
    /\ ret.elem = translate_single(urange[2], selected_frames[3])

\* C23: for every n < size() the divisor selected_frames.size() is not 0,
\* index_frame is at most n, so that n - index_frame does not wrap, and
\* (n - index_frame) / s computed in size_type is the floor of n / s.
C23_IndexArithmeticDefined ==
    \A n \in size_type : n < size =>
        /\ Len(selected_frames) # 0
        /\ index_frame(n) <= n
        /\ (n - index_frame(n)) % Modulus = n - index_frame(n)
        /\ index_urange(n) = n \div Len(selected_frames)

\* C23 witness: a traversal has dereferenced position 4 of a view of three
\* frames, which is frame 1 of sequence 1.
C23_Witness ==
    /\ ret.op = "deref"
    /\ ret.n = 4
    /\ frame_count = 3
    /\ ret.elem = translate_single(urange[2], selected_frames[2])

\* C25: size() is (m * s) mod 2^w, and so is what it has returned; whenever
\* m * s < 2^w it is m * s and every (sequence, frame) pair has its index
\* i * s + j below size(); and m * s < 2^w whenever m <= (2^w - 1) div 6.
C25_SizeModuloWidth ==
    /\ size = (outer_length * frame_count) % Modulus
    /\ ret.op \in { "size", "size_const" } => ret.size = (outer_length * frame_count) % Modulus
    /\ outer_length * frame_count < Modulus =>
           /\ size = outer_length * frame_count
           /\ \A i \in 0 .. (outer_length - 1) : \A j \in 0 .. (frame_count - 1) :
                  i * frame_count + j < size
    /\ outer_length <= (Modulus - 1) \div 6 => outer_length * frame_count < Modulus

\* C25 witness: size() has returned 12 mod 8 = 4 on a view of six frames
\* over two sequences.
C25_Witness ==
    /\ ret.op = "size"
    /\ outer_length * frame_count >= Modulus
    /\ ret.size = (outer_length * frame_count) - Modulus
    /\ frame_count = 6

\* C24: n -> (n div s, n mod s), as operator[] computes it, maps the flat
\* indices below size() to the pairs (i, j) with i < m and j < s, one to
\* one, with i * s + j the way back, and every such pair is the image of the
\* flat index i * s + j, which is below size().
C24_IndexMappingBijective ==
    /\ \A n \in size_type : n < size =>
           /\ index_urange(n) < outer_length
           /\ index_frame(n) < frame_count
           /\ index_urange(n) * frame_count + index_frame(n) = n
    /\ \A n1, n2 \in size_type : (n1 < size /\ n2 < size) =>
           ((index_urange(n1) = index_urange(n2) /\ index_frame(n1) = index_frame(n2))
               => n1 = n2)
    /\ \A i \in 0 .. (outer_length - 1) : \A j \in 0 .. (frame_count - 1) :
           /\ i * frame_count + j \in size_type
           /\ i * frame_count + j < size
           /\ index_urange(i * frame_count + j) = i
           /\ index_frame(i * frame_count + j) = j

\* C26: end() and cend() return the position outer_length * frame_count as
\* of the call, a resize of the outer collection afterwards leaves the
\* position of the end iterator as it was, and the positions a traversal
\* then dereferences out of range are positions not below size().
C26_EndCapturedAtCall ==
    /\ [][end_call \/ cend_call => last' = outer_length * frame_count]_vars
    /\ [][urange' # urange => last' = last]_vars
    /\ [][(ret'.op = "deref_unchecked" \/ visit_out_of_range(FALSE)) => ~(it < size)]_vars

====
